---- MODULE Spec2Model ----
(***************************************************************************)
(* The fixed-timestep rotation example: a player ship steered by the       *)
(* keyboard, an enemy that snaps to face the ship and an enemy that turns  *)
(* towards it at a limited rate (src/src/main.rs).                         *)
(*                                                                         *)
(* Numbers.  f32 values are fixed-point integers:                          *)
(*   - a component of a direction, a quaternion, a dot product: SCALE      *)
(*     units per 1.0;                                                      *)
(*   - a length or coordinate: POS_SCALE units per pixel;                  *)
(*   - an angle: ANGLE_UNITS units per degree, so that the step angles of  *)
(*     the program (6 and 0.75 degrees) are whole numbers.                 *)
(* A unit quaternion about z, (0, 0, sin(h), cos(h)), is kept as the index *)
(* of its half angle h on a grid of 1/8 degree; q and -q are one rotation, *)
(* so the index is taken modulo a half turn and equals the rotation angle  *)
(* in ANGLE_UNITS.  Products are computed on the components, rounded to    *)
(* the fixed-point grid, as the f32 operations round to theirs.            *)
(***************************************************************************)
EXTENDS Integers, Sequences, FiniteSets, TLC

SCALE == 100000000

LIMB == 10000

POS_SCALE == 1000

ANGLE_UNITS == 4

\* f32::NAN: the value of 0.0 * infinity; every comparison with it is false
NAN == 2147483647

\* rotations per full turn, in ANGLE_UNITS (f32::to_radians(360.0))
TURN == 360 * ANGLE_UNITS

to_radians(degrees) == degrees * ANGLE_UNITS

\* cos(k/8 degree) * SCALE for k = 0 .. 720, rounded to nearest
COS_TABLE == <<
    100000000, 99999762, 99999048, 99997858, 99996192, 99994051, 99991433, 99988339,
    99984770, 99980724, 99976203, 99971206, 99965732, 99959784, 99953359, 99946459,
    99939083, 99931231, 99922904, 99914101, 99904822, 99895068, 99884839, 99874134,
    99862953, 99851298, 99839167, 99826561, 99813480, 99799924, 99785892, 99771386,
    99756405, 99740949, 99725019, 99708613, 99691733, 99674379, 99656550, 99638247,
    99619470, 99600218, 99580493, 99560293, 99539620, 99518473, 99496852, 99474757,
    99452190, 99429148, 99405634, 99381646, 99357186, 99332252, 99306846, 99280967,
    99254615, 99227791, 99200495, 99172727, 99144486, 99115774, 99086590, 99056934,
    99026807, 98996208, 98965139, 98933598, 98901586, 98869104, 98836151, 98802728,
    98768834, 98734470, 98699637, 98664333, 98628560, 98592318, 98555606, 98518425,
    98480775, 98442657, 98404070, 98365014, 98325491, 98285499, 98245040, 98204113,
    98162718, 98120857, 98078528, 98035733, 97992470, 97948742, 97904547, 97859887,
    97814760, 97769168, 97723111, 97676588, 97629601, 97582149, 97534232, 97485851,
    97437006, 97387698, 97337926, 97287690, 97236992, 97185831, 97134207, 97082121,
    97029573, 96976563, 96923091, 96869158, 96814764, 96759909, 96704594, 96648818,
    96592583, 96535887, 96478732, 96421118, 96363045, 96304514, 96245524, 96186076,
    96126170, 96065806, 96004985, 95943708, 95881973, 95819783, 95757136, 95694034,
    95630476, 95566462, 95501994, 95437072, 95371695, 95305864, 95239580, 95172842,
    95105652, 95038008, 94969913, 94901365, 94832366, 94762915, 94693013, 94622660,
    94551858, 94480605, 94408902, 94336750, 94264149, 94191099, 94117602, 94043656,
    93969262, 93894421, 93819134, 93743399, 93667219, 93590593, 93513521, 93436004,
    93358043, 93279637, 93200787, 93121493, 93041757, 92961577, 92880955, 92799891,
    92718385, 92636438, 92554050, 92471222, 92387953, 92304245, 92220097, 92135511,
    92050485, 91965022, 91879121, 91792783, 91706007, 91618796, 91531148, 91443064,
    91354546, 91265592, 91176204, 91086382, 90996127, 90905439, 90814317, 90722764,
    90630779, 90538362, 90445515, 90352237, 90258528, 90164391, 90069824, 89974828,
    89879405, 89783553, 89687274, 89590568, 89493436, 89395878, 89297894, 89199486,
    89100652, 89001395, 88901714, 88801610, 88701083, 88600134, 88498764, 88396972,
    88294759, 88192126, 88089074, 87985602, 87881711, 87777402, 87672676, 87567532,
    87461971, 87355994, 87249601, 87142793, 87035570, 86927932, 86819881, 86711417,
    86602540, 86493251, 86383551, 86273439, 86162916, 86051983, 85940641, 85828890,
    85716730, 85604162, 85491187, 85377805, 85264016, 85149822, 85035222, 84920218,
    84804810, 84688997, 84572782, 84456164, 84339145, 84221723, 84103901, 83985679,
    83867057, 83748035, 83628616, 83508798, 83388582, 83267970, 83146961, 83025557,
    82903757, 82781563, 82658975, 82535993, 82412619, 82288852, 82164694, 82040144,
    81915204, 81789875, 81664156, 81538048, 81411552, 81284668, 81157398, 81029742,
    80901699, 80773272, 80644460, 80515265, 80385686, 80255725, 80125381, 79994657,
    79863551, 79732065, 79600200, 79467956, 79335334, 79202334, 79068957, 78935204,
    78801075, 78666571, 78531693, 78396441, 78260816, 78124818, 77988448, 77851708,
    77714596, 77577115, 77439264, 77301045, 77162458, 77023504, 76884183, 76744496,
    76604444, 76464028, 76323247, 76182103, 76040597, 75898728, 75756498, 75613908,
    75470958, 75327649, 75183981, 75039955, 74895572, 74750833, 74605738, 74460287,
    74314483, 74168324, 74021813, 73874949, 73727734, 73580167, 73432251, 73283985,
    73135370, 72986407, 72837097, 72687440, 72537437, 72387089, 72236396, 72085360,
    71933980, 71782258, 71630194, 71477790, 71325045, 71171961, 71018538, 70864776,
    70710678, 70556243, 70401472, 70246367, 70090926, 69935153, 69779046, 69622607,
    69465837, 69308736, 69151306, 68993546, 68835458, 68677042, 68518299, 68359230,
    68199836, 68040117, 67880075, 67719709, 67559021, 67398011, 67236681, 67075030,
    66913061, 66750772, 66588167, 66425244, 66262005, 66098450, 65934582, 65770399,
    65605903, 65441095, 65275975, 65110545, 64944805, 64778756, 64612398, 64445733,
    64278761, 64111483, 63943900, 63776013, 63607822, 63439328, 63270533, 63101436,
    62932039, 62762343, 62592347, 62422054, 62251464, 62080577, 61909395, 61737918,
    61566148, 61394084, 61221728, 61049081, 60876143, 60702915, 60529399, 60355594,
    60181502, 60007124, 59832460, 59657511, 59482279, 59306763, 59130965, 58954885,
    58778525, 58601885, 58424967, 58247770, 58070296, 57892545, 57714519, 57536218,
    57357644, 57178796, 56999676, 56820285, 56640624, 56460693, 56280493, 56100025,
    55919290, 55738289, 55557023, 55375493, 55193699, 55011642, 54829323, 54646743,
    54463904, 54280804, 54097447, 53913832, 53729961, 53545834, 53361452, 53176816,
    52991926, 52806785, 52621392, 52435749, 52249856, 52063715, 51877326, 51690690,
    51503807, 51316680, 51129309, 50941694, 50753836, 50565737, 50377398, 50188818,
    50000000, 49810944, 49621650, 49432121, 49242356, 49052357, 48862124, 48671659,
    48480962, 48290034, 48098877, 47907490, 47715876, 47524034, 47331967, 47139674,
    46947156, 46754415, 46561452, 46368267, 46174861, 45981236, 45787392, 45593329,
    45399050, 45204555, 45009844, 44814919, 44619781, 44424431, 44228869, 44033097,
    43837115, 43640924, 43444526, 43247921, 43051110, 42854094, 42656874, 42459451,
    42261826, 42064000, 41865974, 41667748, 41469324, 41270703, 41071885, 40872872,
    40673664, 40474263, 40274669, 40074883, 39874907, 39674741, 39474386, 39273843,
    39073113, 38872197, 38671096, 38469811, 38268343, 38066693, 37864862, 37662850,
    37460659, 37258290, 37055744, 36853021, 36650123, 36447050, 36243804, 36040385,
    35836795, 35633034, 35429104, 35225005, 35020738, 34816305, 34611706, 34406942,
    34202014, 33996924, 33791672, 33586259, 33380686, 33174954, 32969065, 32763018,
    32556815, 32350458, 32143947, 31937282, 31730466, 31523498, 31316381, 31109114,
    30901699, 30694138, 30486430, 30278577, 30070580, 29862440, 29654157, 29445734,
    29237170, 29028468, 28819627, 28610649, 28401534, 28192285, 27982901, 27773385,
    27563736, 27353955, 27144045, 26934005, 26723838, 26513543, 26303121, 26092575,
    25881905, 25671111, 25460195, 25249158, 25038000, 24826724, 24615329, 24403818,
    24192190, 23980446, 23768589, 23556619, 23344536, 23132343, 22920039, 22707626,
    22495105, 22282477, 22069744, 21856904, 21643961, 21430915, 21217767, 21004518,
    20791169, 20577721, 20364175, 20150532, 19936793, 19722960, 19509032, 19295012,
    19080900, 18866696, 18652404, 18438022, 18223553, 18008996, 17794355, 17579628,
    17364818, 17149925, 16934950, 16719895, 16504761, 16289547, 16074257, 15858889,
    15643447, 15427929, 15212339, 14996676, 14780941, 14565136, 14349262, 14133320,
    13917310, 13701234, 13485093, 13268888, 13052619, 12836289, 12619897, 12403445,
    12186934, 11970366, 11753740, 11537058, 11320321, 11103531, 10886687, 10669792,
    10452846, 10235851, 10018806, 9801714, 9584575, 9367391, 9150162, 8932889,
    8715574, 8498218, 8280821, 8063384, 7845910, 7628397, 7410849, 7193265,
    6975647, 6757996, 6540313, 6322598, 6104854, 5887080, 5669279, 5451450,
    5233596, 5015716, 4797813, 4579887, 4361939, 4143970, 3925982, 3707974,
    3489950, 3271908, 3053851, 2835780, 2617695, 2399597, 2181489, 1963369,
    1745241, 1527104, 1308960, 1090809, 872654, 654494, 436331, 218166,
    0
>>

Abs(a) == IF a < 0 THEN -a ELSE a

Sign(a) == IF a < 0 THEN -1 ELSE 1

Min(a, b) == IF a < b THEN a ELSE b

Max(a, b) == IF a > b THEN a ELSE b

\* a / b rounded to nearest, b > 0
DivR(a, b) == Sign(a) * ((Abs(a) + b \div 2) \div b)

\* cos and sin of an angle of k/8 degree, any integer k
CosE(k) ==
    LET r == k % (2 * TURN) IN
    IF r <= TURN \div 2 THEN COS_TABLE[r + 1]
    ELSE IF r <= TURN THEN -COS_TABLE[TURN - r + 1]
    ELSE IF r <= 3 * (TURN \div 2) THEN -COS_TABLE[r - TURN + 1]
    ELSE COS_TABLE[2 * TURN - r + 1]

SinE(k) == CosE(k - TURN \div 2)

\* f32 multiplication a * b of two fixed-point values, rounded to nearest
MulS(a, b) ==
    LET A == Abs(a)
        B == Abs(b)
        ah == A \div LIMB
        al == A % LIMB
        bh == B \div LIMB
        bl == B % LIMB
        m == ah * bl + al * bh
    IN  Sign(a) * Sign(b)
          * (ah * bh + m \div LIMB + ((m % LIMB) * LIMB + al * bl + SCALE \div 2) \div SCALE)

Mul(a, b) == IF a = NAN \/ b = NAN THEN NAN ELSE MulS(a, b)

Add(a, b) == IF a = NAN \/ b = NAN THEN NAN ELSE a + b

Sub(a, b) == IF a = NAN \/ b = NAN THEN NAN ELSE a - b

\* f32 comparisons: false when either side is NaN
Gt(a, b) == a # NAN /\ b # NAN /\ a > b

Lt(a, b) == a # NAN /\ b # NAN /\ a < b

\* Vec2::dot
Dot(a, b) == Add(Mul(a[1], b[1]), Mul(a[2], b[2]))

\* the unit vector at d ANGLE_UNITS counter-clockwise of +X
UnitVec(d) == <<CosE(2 * d), SinE(2 * d)>>

\* scale (x, y) by a positive factor until both fit 15 bits
Reduce(x, y) ==
    LET d == Max(Abs(x), Abs(y)) \div 32768 + 1 IN <<DivR(x, d), DivR(y, d)>>

\* z of the cross product of (x, y) with the unit vector at k/8 degree:
\* negative while that unit vector is clockwise of (x, y)
CrossUnit(x, y, k) == x * DivR(SinE(k), 4096) - y * DivR(CosE(k), 4096)

RECURSIVE LastClockwise(_, _, _, _, _, _)
\* the largest i in lo .. hi with CrossUnit(x, y, q + i * g) <= 0
LastClockwise(x, y, q, g, lo, hi) ==
    IF lo >= hi THEN lo
    ELSE LET mid == (lo + hi + 1) \div 2 IN
         IF CrossUnit(x, y, q + mid * g) <= 0
         THEN LastClockwise(x, y, q, g, mid, hi)
         ELSE LastClockwise(x, y, q, g, lo, mid - 1)

\* the direction of (x, y) # (0, 0) in 1/8 degrees, to the nearest multiple of g
Atan2E(x, y, g) ==
    LET v == Reduce(x, y)
        vx == v[1]
        vy == v[2]
        quarter == TURN \div 2
        q == IF vx > 0 /\ vy >= 0 THEN 0
             ELSE IF vx <= 0 /\ vy > 0 THEN quarter
             ELSE IF vx < 0 /\ vy <= 0 THEN 2 * quarter
             ELSE 3 * quarter
        i == LastClockwise(vx, vy, q, g, 0, quarter \div g)
        k == q + i * g
    IN  IF i < quarter \div g /\ -CrossUnit(vx, vy, k) > CrossUnit(vx, vy, k + g)
        THEN (k + g) % (2 * TURN)
        ELSE k % (2 * TURN)

\* Vec2::normalize of a non-zero vector: its direction, on the grid of directions
NormalizeNonZero(v) == UnitVec(Atan2E(v[1], v[2], 2) \div 2)

\* Vec2::normalize: v * (1.0 / length); 0.0 * infinity is NaN for the zero vector
normalize(v) == IF v = <<0, 0>> THEN <<NAN, NAN>> ELSE NormalizeNonZero(v)

RECURSIVE LastAbove(_, _, _)
\* the largest a in lo .. hi with cos(a) >= x, a in ANGLE_UNITS
LastAbove(x, lo, hi) ==
    IF lo >= hi THEN lo
    ELSE LET mid == (lo + hi + 1) \div 2 IN
         IF CosE(2 * mid) >= x THEN LastAbove(x, mid, hi) ELSE LastAbove(x, lo, mid - 1)

\* f32::acos of x in [-1, 1]: an angle in 0 .. TURN / 2
acos(x) ==
    IF x = NAN THEN NAN
    ELSE LET a == LastAbove(x, 0, TURN \div 2) IN
         IF a < TURN \div 2 /\ CosE(2 * a) - x > x - CosE(2 * (a + 1)) THEN a + 1 ELSE a

\* f32::min, f32::max (glam's Vec3::min / max componentwise)
fmin(a, b) == IF a = NAN THEN b ELSE IF b = NAN THEN a ELSE Min(a, b)

fmax(a, b) == IF a = NAN THEN b ELSE IF b = NAN THEN a ELSE Max(a, b)

(***************************************************************************)
(* Quaternions about z.  A Quat is the index q in 0 .. TURN - 1 of the     *)
(* unit quaternion (0, 0, sin(q/8 deg), cos(q/8 deg)), or NAN.             *)
(***************************************************************************)
QuatZ(q) == IF q = NAN THEN NAN ELSE SinE(q)

QuatW(q) == IF q = NAN THEN NAN ELSE CosE(q)

IDENTITY == 0

\* Quat::from_xyzw(0, 0, z, w) of a (z, w) of any positive length
from_xyzw(z, w) ==
    IF z = NAN \/ w = NAN THEN NAN ELSE Atan2E(w, z, 1) % TURN

\* Quat::from_rotation_z(angle) = (0, 0, sin(angle / 2), cos(angle / 2))
from_rotation_z(angle) == angle % TURN

\* Quat * Quat for quaternions about z: (z1 w2 + w1 z2, w1 w2 - z1 z2)
QuatMul(a, b) ==
    from_xyzw(Add(Mul(QuatZ(a), QuatW(b)), Mul(QuatW(a), QuatZ(b))),
              Sub(Mul(QuatW(a), QuatW(b)), Mul(QuatZ(a), QuatZ(b))))

\* cos and sin of the rotation angle of q: w^2 - z^2 and 2 z w
QuatCos(q) == Sub(Mul(QuatW(q), QuatW(q)), Mul(QuatZ(q), QuatZ(q)))

QuatSin(q) == LET zw == Mul(QuatZ(q), QuatW(q)) IN Add(zw, zw)

Neg(a) == IF a = NAN THEN NAN ELSE -a

\* (Quat * Vec3::Y).xy() = (-sin, cos)
MulVecY(q) == <<Neg(QuatSin(q)), QuatCos(q)>>

\* (Quat * -Vec3::X).xy() = (-cos, -sin)
MulVecNegX(q) == <<Neg(QuatCos(q)), Neg(QuatSin(q))>>
(***************************************************************************)
(* The program.                                                            *)
(***************************************************************************)
\* 1.0 / TIME_STEP: fixed steps per second
STEPS_PER_SECOND == 60

\* x * TIME_STEP
TimesTimeStep(x) == DivR(x, STEPS_PER_SECOND)

\* the arena, in POS_SCALE units
BOUNDS == <<1200 * POS_SCALE, 640 * POS_SCALE>>

\* f32::EPSILON = 2^-23 in SCALE units (11.92)
EPSILON == 12

ONE_MINUS_EPSILON == SCALE - 2 * EPSILON

\* the 180 degree branch with SIN_FRAC_PI_2 and COS_FRAC_PI_2 exchanged
from_rotation_arc_2d_swapped(from, to) ==
    LET dot == Dot(from, to) IN
    IF Gt(dot, ONE_MINUS_EPSILON) THEN IDENTITY
    ELSE IF Lt(dot, -ONE_MINUS_EPSILON) THEN from_xyzw(0, SCALE)
    ELSE from_xyzw(Sub(Mul(from[1], to[2]), Mul(to[1], from[2])), Add(SCALE, dot))

\* Quat::from_rotation_arc_2d(from, to)
from_rotation_arc_2d(from, to) ==
    LET dot == Dot(from, to) IN
    IF Gt(dot, ONE_MINUS_EPSILON) THEN IDENTITY
    ELSE IF Lt(dot, -ONE_MINUS_EPSILON) THEN from_xyzw(SCALE, 0)
    ELSE LET z == Sub(Mul(from[1], to[2]), Mul(to[1], from[2]))
             w == Add(SCALE, dot)
         IN  from_xyzw(z, w)

Systems == {"player_movement_system", "snap_to_player_system", "rotate_to_player_system"}

Keys == {"Left", "Right", "Up"}

VARIABLES
    kind,            \* entity -> "Player" | "SnapToPlayer" | "RotateToPlayer"
    movement_speed,  \* entity -> Player.movement_speed, POS_SCALE units per second
    rotation_speed,  \* entity -> Player / RotateToPlayer rotation_speed, ANGLE_UNITS per second
    translation,     \* entity -> Transform.translation.xy()
    rotation,        \* entity -> Transform.rotation
    keyboard_input,  \* Input<KeyCode>: the keys pressed during the current fixed step
    pending,         \* the systems of the set that have not yet run in the current fixed step
    panicked,        \* "none", or the panic that ended the app
    glam_assert,     \* whether glam is built with its glam-assert feature
    keys_used,       \* the keys the user ever presses
    step_limit,      \* the number of fixed steps explored
    steps,           \* fixed steps begun
    step_start,      \* history: translation when the current fixed step began
    target_read,     \* history: system -> the player translation it read in this step
    initial_rotation \* history: rotation at start

vars == <<kind, movement_speed, rotation_speed, translation, rotation,
          keyboard_input, pending, panicked, glam_assert, keys_used, step_limit, steps,
          step_start, target_read, initial_rotation>>

world == <<kind, movement_speed, rotation_speed, glam_assert, keys_used, step_limit,
           initial_rotation>>

NoRead == [s \in Systems |-> <<>>]

\* a world: one entity per spawn_bundle(..).insert(..), in spawn order
World(kinds, positions, rotations, speeds, assert, keys, limit) ==
    /\ kind = kinds
    /\ movement_speed = [e \in DOMAIN kinds |-> IF kinds[e] = "Player" THEN 500 * POS_SCALE ELSE 0]
    /\ rotation_speed = speeds
    /\ translation = positions
    /\ rotation = rotations
    /\ initial_rotation = rotations
    /\ keyboard_input = {}
    /\ pending = {}
    /\ panicked = "none"
    /\ glam_assert = assert
    /\ keys_used = keys
    /\ step_limit = limit
    /\ steps = 0
    /\ step_start = positions
    /\ target_read = NoRead

SetupKinds == <<"Player", "SnapToPlayer", "RotateToPlayer">>

SetupPositions ==
    << <<0, 40 * POS_SCALE - BOUNDS[2] \div 2>>,
       <<0 - BOUNDS[1] \div 4, 0>>,
       <<0 + BOUNDS[1] \div 4, 0>> >>

SetupRotations == <<IDENTITY, IDENTITY, IDENTITY>>

SetupSpeeds == <<to_radians(360), 0, to_radians(45)>>

MaxSteps == 3

\* fn setup
setup(assert) ==
    World(SetupKinds, SetupPositions, SetupRotations, SetupSpeeds, assert, Keys, MaxSteps)

Init == \E assert \in BOOLEAN : setup(assert)

Entities == DOMAIN kind

\* Query<.., With<Player>>
Players == {e \in Entities : kind[e] = "Player"}

ThePlayer == CHOOSE e \in Players : TRUE

\* single() that takes the first match when there are several
SingleFailsOnEmpty(matches) == matches = {}

\* Query::single / single_mut panics unless exactly one entity matches
SingleFails(matches) == Cardinality(matches) # 1

\* the query without its With<SnapToPlayer> and Without<Player> filters
SnapQueryUnfiltered == Entities

\* Query<&mut Transform, (With<SnapToPlayer>, Without<Player>)>
SnapQuery == {e \in Entities : kind[e] = "SnapToPlayer"}

\* Query<(&RotateToPlayer, &mut Transform), Without<Player>>
RotateQuery == {e \in Entities : kind[e] = "RotateToPlayer"}

\* the FixedTimestep run criteria starts one run of the system set
BeginStep ==
    /\ panicked = "none"
    /\ pending = {}
    /\ steps < step_limit
    /\ \E keys \in SUBSET keys_used : keyboard_input' = keys
    /\ pending' = Systems
    /\ steps' = steps + 1
    /\ step_start' = translation
    /\ target_read' = NoRead
    /\ UNCHANGED <<world, translation, rotation, panicked>>

\* Right adds to the factor as Left does
RotationFactorSameSign(keys) ==
    (IF "Left" \in keys THEN 1 ELSE 0) + (IF "Right" \in keys THEN 1 ELSE 0)

\* rotation_factor after the Left and Right tests
RotationFactor(keys) ==
    (IF "Left" \in keys THEN 1 ELSE 0) - (IF "Right" \in keys THEN 1 ELSE 0)

\* movement_factor after the Up test
MovementFactor(keys) == IF "Up" \in keys THEN 1 ELSE 0

\* the forward vector taken before the rotation is updated
MovementDirectionStale(before, after) == MulVecY(before)

\* movement_direction: transform.rotation * Vec3::Y, read after `rotation *= rotation_delta`
MovementDirection(before, after) == MulVecY(after)

\* only the upper bound is applied
BoundUpperOnly(v) ==
    <<fmin(v[1], BOUNDS[1] \div 2), fmin(v[2], BOUNDS[2] \div 2)>>

\* translation.min(extents).max(-extents)
Bound(v) ==
    LET extents == <<BOUNDS[1] \div 2, BOUNDS[2] \div 2>> IN
    <<fmax(fmin(v[1], extents[1]), -extents[1]), fmax(fmin(v[2], extents[2]), -extents[2])>>

\* the new Transform of the ship: <<translation, rotation>>
PlayerMove(e) ==
    LET rotation_factor == RotationFactor(keyboard_input)
        movement_factor == MovementFactor(keyboard_input)
        rotation_delta == from_rotation_z(TimesTimeStep(rotation_factor * rotation_speed[e]))
        new_rotation == QuatMul(rotation[e], rotation_delta)
        movement_direction == MovementDirection(rotation[e], new_rotation)
        movement_distance == TimesTimeStep(movement_factor * movement_speed[e])
        translation_delta == <<Mul(movement_direction[1], movement_distance),
                               Mul(movement_direction[2], movement_distance)>>
        moved == <<Add(translation[e][1], translation_delta[1]),
                   Add(translation[e][2], translation_delta[2])>>
    IN  <<Bound(moved), new_rotation>>

\* fn player_movement_system
player_movement_system ==
    /\ panicked = "none"
    /\ "player_movement_system" \in pending
    /\ pending' = pending \ {"player_movement_system"}
    /\ IF SingleFails(Players)
       THEN /\ panicked' = "single"
            /\ UNCHANGED <<translation, rotation>>
       ELSE LET e == ThePlayer
                t == PlayerMove(e)
            IN  /\ translation' = [translation EXCEPT ![e] = t[1]]
                /\ rotation' = [rotation EXCEPT ![e] = t[2]]
                /\ UNCHANGED panicked
    /\ UNCHANGED <<world, keyboard_input, steps, step_start, target_read>>

\* the rotation applied is the full step, whatever the angle left
RotationLimitNone(speed_step, max_angle) == speed_step

\* (config.rotation_speed * TIME_STEP).min(max_angle)
RotationLimit(speed_step, max_angle) == fmin(speed_step, max_angle)

\* (player_transform.translation.xy() - enemy_transform.translation.xy()).normalize()
ToPlayer(e, player_translation) ==
    normalize(<<player_translation[1] - translation[e][1],
                player_translation[2] - translation[e][2]>>)

\* the body of the for loop of rotate_to_player_system: the enemy's new rotation
RotateStep(e, player_translation) ==
    LET enemy_side == MulVecNegX(rotation[e])
        to_player == ToPlayer(e, player_translation)
        side_dot_player == Dot(enemy_side, to_player)
        enemy_forward == MulVecY(rotation[e])
        forward_dot_player == Dot(enemy_forward, to_player)
        max_angle == acos(fmax(fmin(forward_dot_player, SCALE), -SCALE))
        limit == RotationLimit(TimesTimeStep(rotation_speed[e]), max_angle)
    IN  IF Gt(side_dot_player, EPSILON)
        THEN QuatMul(rotation[e], from_rotation_z(limit))
        ELSE IF Lt(side_dot_player, -EPSILON)
        THEN QuatMul(rotation[e], from_rotation_z(-limit))
        ELSE rotation[e]

\* the body of the for loop of snap_to_player_system: the enemy's new rotation
SnapStep(e, player_translation) ==
    LET enemy_forward == MulVecY(rotation[e])
        to_player == ToPlayer(e, player_translation)
        rotate_to_player == from_rotation_arc_2d(enemy_forward, to_player)
    IN  QuatMul(rotation[e], rotate_to_player)

\* Vec2::normalize panics on a zero-length vector when glam-assert is enabled
NormalizePanics(e, player_translation) ==
    glam_assert /\ translation[e] = player_translation

RECURSIVE ForEach(_, _, _, _, _)
\* query.iter_mut() from entity e on, in entity order, running the named system's
\* loop body: <<rotation after the loop, whether the loop panicked>>
ForEach(name, query, e, rot, player_translation) ==
    IF e \notin Entities THEN <<rot, FALSE>>
    ELSE IF e \notin query THEN ForEach(name, query, e + 1, rot, player_translation)
    ELSE IF NormalizePanics(e, player_translation) THEN <<rot, TRUE>>
    ELSE ForEach(name, query, e + 1,
                 [rot EXCEPT ![e] = IF name = "rotate_to_player_system"
                                    THEN RotateStep(e, player_translation)
                                    ELSE SnapStep(e, player_translation)],
                 player_translation)

\* an enemy system: player_query.single(), then the loop over its query
EnemySystem(name, query) ==
    /\ panicked = "none"
    /\ name \in pending
    /\ pending' = pending \ {name}
    /\ IF SingleFails(Players)
       THEN /\ panicked' = "single"
            /\ UNCHANGED <<rotation, target_read>>
       ELSE LET player_translation == translation[ThePlayer]
                done == ForEach(name, query, 1, rotation, player_translation)
            IN  /\ rotation' = done[1]
                /\ panicked' = IF done[2] THEN "normalize" ELSE "none"
                /\ target_read' = [target_read EXCEPT ![name] = <<player_translation>>]
    /\ UNCHANGED <<world, translation, keyboard_input, steps, step_start>>

\* fn rotate_to_player_system
rotate_to_player_system == EnemySystem("rotate_to_player_system", RotateQuery)

\* fn snap_to_player_system
snap_to_player_system == EnemySystem("snap_to_player_system", SnapQuery)

\* one run of the system set: the three systems carry no ordering constraint
Next ==
    \/ BeginStep
    \/ player_movement_system
    \/ snap_to_player_system
    \/ rotate_to_player_system

Spec == Init /\ [][Next]_vars

(***************************************************************************)
(* Properties.                                                             *)
(***************************************************************************)
\* system s ran in this step of the behaviour
Ran(s) == s \in pending /\ s \notin pending'

\* the direction from entity e to the point p, in ANGLE_UNITS counter-clockwise of +X
DirectionTo(e, p) ==
    Atan2E(p[1] - translation[e][1], p[2] - translation[e][2], 2) \div 2

\* the direction of the forward vector (rotation applied to +Y) of a rotation
ForwardOf(q) == (q + TURN \div 4) % TURN

\* the unsigned angle between two directions, 0 .. TURN / 2
AngleBetween(a, b) == Min((a - b) % TURN, (b - a) % TURN)

\* the unsigned angle of the rotation that takes q1 to q2
Turned(q1, q2) == AngleBetween(q1, q2)

HalfX == 600 * POS_SCALE

HalfY == 320 * POS_SCALE

InArena(v) == Abs(v[1]) <= HalfX /\ Abs(v[2]) <= HalfY

ArenaClamp(v) == <<Min(Max(v[1], -HalfX), HalfX), Min(Max(v[2], -HalfY), HalfY)>>

\* C5: in every fixed step and under every order of the three systems, the player
\* position that snap_to_player_system and rotate_to_player_system read as their
\* target is the player's position as it stood when the step began.
C5_TargetIsPoseBeforeStep ==
    \A s \in Systems :
        target_read[s] # <<>> => target_read[s][1] = step_start[ThePlayer]

\* C8: one run of player_movement_system turns the ship by (left - right) *
\* rotation_speed * TIME_STEP about z: +6 degrees with Left only at 360 degrees per
\* second, -6 degrees with Right only, nothing with both or neither, whatever Up
\* and the heading are.
C8_TurnPerStep ==
    [][Ran("player_movement_system") /\ panicked' = "none" =>
        LET p == ThePlayer
            left == "Left" \in keyboard_input
            right == "Right" \in keyboard_input
            factor == (IF left THEN 1 ELSE 0) + (IF right THEN -1 ELSE 0)
            degrees == IF left /\ ~right THEN 6 ELSE IF right /\ ~left THEN -6 ELSE 0
        IN  /\ rotation'[p] = (rotation[p] + factor * (rotation_speed[p] \div STEPS_PER_SECOND)) % TURN
            /\ rotation_speed[p] = to_radians(360) =>
                   rotation'[p] = (rotation[p] + to_radians(degrees)) % TURN]_vars

C8_Witness ==
    /\ steps = 2
    /\ "player_movement_system" \notin pending
    /\ keyboard_input = {"Left", "Up"}
    /\ rotation[1] = to_radians(12)

\* C9: with Up pressed the ship moves by movement_speed * TIME_STEP along the forward
\* vector of the rotation as it is after this step's turn (then is bounded to the
\* arena); with Up released a position inside the arena is left as it is.
C9_MoveAlongNewForward ==
    [][Ran("player_movement_system") /\ panicked' = "none" =>
        LET p == ThePlayer
            forward == MulVecY(rotation'[p])
            distance == DivR(movement_speed[p], STEPS_PER_SECOND)
            target == <<translation[p][1] + MulS(forward[1], distance),
                        translation[p][2] + MulS(forward[2], distance)>>
        IN  IF "Up" \in keyboard_input
            THEN translation'[p] = ArenaClamp(target)
            ELSE InArena(translation[p]) => translation'[p] = translation[p]]_vars

C9_Witness ==
    /\ steps = 1
    /\ "player_movement_system" \notin pending
    /\ keyboard_input = {"Left", "Up"}
    /\ rotation[1] = to_radians(6)
    /\ translation[1][1] < 0
    /\ translation[1][2] > SetupPositions[1][2]

\* C10: no step changes the translation of a SnapToPlayer or RotateToPlayer entity;
\* snap_to_player_system and rotate_to_player_system leave the player's Transform
\* as it is; player_movement_system leaves every other Transform as it is.
C10_Frame ==
    [][/\ \A e \in Entities \ Players : translation'[e] = translation[e]
       /\ Ran("snap_to_player_system") \/ Ran("rotate_to_player_system") =>
              \A e \in Players : translation'[e] = translation[e] /\ rotation'[e] = rotation[e]
       /\ Ran("player_movement_system") =>
              \A e \in Entities \ Players : rotation'[e] = rotation[e]]_vars

C10_Witness ==
    /\ steps = 1
    /\ pending = {}
    /\ translation[1] # SetupPositions[1]
    /\ rotation[1] # IDENTITY
    /\ rotation[2] # IDENTITY
    /\ rotation[3] # IDENTITY

(***************************************************************************)
(* Worlds other than the one setup builds.  The systems act on whatever    *)
(* the queries match, so a property of a system is checked from worlds     *)
(* drawn from bounded sets of poses and components.                        *)
(***************************************************************************)
MaxArenaSteps == 2

\* the ship next to a wall and heading into it.  Each start is the world that
\* setup's world becomes when player_movement_system runs first in every step and
\*   1: Left is held for 30 steps, then Up for 4      (bottom wall)
\*   2: Left is held for 15 steps, then Up for 72     (left wall)
\*   3: Right is held for 15 steps, then Up for 72    (right wall)
\*   4: Up is held for 72 steps                       (top wall)
ArenaStarts ==
    { [ship |-> <<0, -313332>>, rotations |-> <<720, 895, 102>>],
      [ship |-> <<-599976, -280000>>, rotations |-> <<360, 532, 261>>],
      [ship |-> <<599976, -280000>>, rotations |-> <<1080, 1011, 261>>],
      [ship |-> <<0, 319976>>, rotations |-> <<0, 1267, 174>>] }

InitArena ==
    \E s \in ArenaStarts, assert \in BOOLEAN :
        World(SetupKinds, <<s.ship, SetupPositions[2], SetupPositions[3]>>, s.rotations,
              SetupSpeeds, assert, Keys, MaxArenaSteps)

SpecArena == InitArena /\ [][Next]_vars

MaxRotateSteps == 5

\* the prior rotations of an enemy: every whole degree
EveryDegree == {to_radians(d) : d \in 0 .. 359}

\* RotateToPlayer.rotation_speed: setup's 45 degrees per second, and 600 (10 per step)
RotateSpeeds == {to_radians(45), to_radians(600)}

\* the user presses nothing: the ship stays where setup puts it
InitRotate ==
    \E r \in EveryDegree, speed \in RotateSpeeds :
        World(SetupKinds, SetupPositions, <<IDENTITY, IDENTITY, r>>,
              <<to_radians(360), 0, speed>>, FALSE, {}, MaxRotateSteps)

SpecRotate == InitRotate /\ [][Next]_vars

MaxSnapSteps == 2

\* the ship where setup puts it, or exactly on one of the two enemies
InitSnap ==
    \E r \in EveryDegree, ship \in {SetupPositions[e] : e \in 1 .. 3}, assert \in BOOLEAN :
        World(SetupKinds, <<ship, SetupPositions[2], SetupPositions[3]>>,
              <<IDENTITY, r, IDENTITY>>, SetupSpeeds, assert, {}, MaxSnapSteps)

SpecSnap == InitSnap /\ [][Next]_vars

\* worlds with one, no and two Player entities
PlayerWorlds ==
    { SetupKinds,
      <<"SnapToPlayer", "SnapToPlayer", "RotateToPlayer">>,
      <<"Player", "Player", "RotateToPlayer">> }

InitPlayers ==
    \E kinds \in PlayerWorlds, assert \in BOOLEAN :
        World(kinds, SetupPositions, SetupRotations,
              [e \in 1 .. 3 |-> IF kinds[e] = "Player" THEN to_radians(360)
                                ELSE IF kinds[e] = "RotateToPlayer" THEN to_radians(45)
                                ELSE 0],
              assert, Keys, MaxSteps)

SpecPlayers == InitPlayers /\ [][Next]_vars

\* the angle between e's forward vector under rotation q and the direction to the ship
AngleToPlayer(e, q) ==
    AngleBetween(ForwardOf(q), DirectionTo(e, translation[ThePlayer]))

\* C1: from wherever the ship is steered, its position after player_movement_system
\* satisfies |x| <= BOUNDS.x / 2 = 600 and |y| <= BOUNDS.y / 2 = 320.
C1_ShipInArena == \A e \in Players : InArena(translation[e])

C1_Witness ==
    /\ steps = 2
    /\ "player_movement_system" \notin pending
    /\ "Up" \in keyboard_input
    /\ translation[1][2] = -HalfY

C2_TurnsUntilFacingBelow180 ==
    /\ [][Ran("rotate_to_player_system") /\ panicked' = "none" =>
            \A e \in RotateQuery :
                LET a == AngleToPlayer(e, rotation[e])
                    b == AngleToPlayer(e, rotation'[e])
                IN  IF a = 0 THEN b = 0 ELSE a < TURN \div 2 => b < a]_vars
    /\ [](\A e \in RotateQuery :
            /\ TimesTimeStep(rotation_speed[e]) = to_radians(10)
            /\ AngleToPlayer(e, initial_rotation[e]) = to_radians(37)
            /\ "rotate_to_player_system" \notin pending
            => (AngleToPlayer(e, rotation[e]) = 0 <=> steps >= 4))

\* C3: after one run of snap_to_player_system the forward vector of every
\* SnapToPlayer enemy that is not on the ship's position points from the enemy to
\* the ship, whatever its rotation was: facing the ship already, facing away from
\* it, or anything else.
C3_SnapFacesPlayer ==
    [][Ran("snap_to_player_system") /\ panicked' = "none" =>
        \A e \in SnapQuery :
            translation[e] # translation[ThePlayer] =>
                ForwardOf(rotation'[e]) = DirectionTo(e, translation[ThePlayer])]_vars

C3_Witness ==
    /\ steps = 1
    /\ "snap_to_player_system" \notin pending
    /\ translation[2] # translation[1]
    /\ AngleToPlayer(2, initial_rotation[2]) = TURN \div 2
    /\ AngleToPlayer(2, rotation[2]) = 0

\* C4: when a SnapToPlayer or RotateToPlayer enemy is exactly on the ship's position,
\* the run of its system ends in an error for it, and the enemy's rotation is not
\* overwritten with an undefined value.
C4_DegenerateDirectionRaises ==
    [][\A s \in {"snap_to_player_system", "rotate_to_player_system"} :
        Ran(s) /\ Cardinality(Players) = 1 =>
            \A e \in (IF s = "snap_to_player_system" THEN SnapQuery ELSE RotateQuery) :
                translation[e] = translation[ThePlayer] =>
                    panicked' # "none" /\ rotation'[e] # NAN]_vars

\* C6: in a world that holds no Player entity, or several, each of the three systems
\* fails and changes no Transform; with exactly one Player none of them fails so.
C6_SinglePlayer ==
    [][\A s \in Systems :
        Ran(s) =>
            IF Cardinality(Players) # 1
            THEN panicked' = "single" /\ translation' = translation /\ rotation' = rotation
            ELSE panicked' # "single"]_vars

C6_Witness ==
    /\ Cardinality(Players) = 2
    /\ panicked = "single"
    /\ steps = 1
    /\ translation = step_start
    /\ rotation = initial_rotation

\* C7: the rotation that one run of rotate_to_player_system applies to a
\* RotateToPlayer enemy is at most rotation_speed * TIME_STEP and at most the angle
\* between the enemy's forward vector and the direction to the ship; it is none when
\* the forward vector already has that direction.
C7_TurnIsLimited ==
    [][Ran("rotate_to_player_system") /\ panicked' = "none" =>
        \A e \in RotateQuery :
            LET a == AngleToPlayer(e, rotation[e])
                t == Turned(rotation[e], rotation'[e])
            IN  /\ t * STEPS_PER_SECOND <= rotation_speed[e]
                /\ t <= a
                /\ a = 0 => rotation'[e] = rotation[e]]_vars

C7_Witness ==
    /\ steps = 4
    /\ "rotate_to_player_system" \notin pending
    /\ rotation_speed[3] = to_radians(600)
    /\ AngleToPlayer(3, initial_rotation[3]) = to_radians(37)
    /\ AngleToPlayer(3, rotation[3]) = 0

====
